---- MODULE Spec2Model ----
(***************************************************************************)
(* The sweep-line preprocessing of src/src/sweeper.cc: Sweep() turns the   *)
(* buffers of a problem into sorted points and consumes them one by one,   *)
(* building sections, partitions, per-buffer section spans and overlaps;   *)
(* SweepResult::CalculateCuts() counts the buffers crossing each section   *)
(* boundary.  One step of the model is one iteration of the loop over the  *)
(* sorted points (sweeper.cc:115-199), or the call of CalculateCuts.       *)
(***************************************************************************)
EXTENDS Integers, Sequences, FiniteSets, TLC

\* ------------------------------------------------------------------------
\* Bounds of the checked inputs.
\* ------------------------------------------------------------------------

\* A problem holds at most MaxIntervals intervals: buffer lifespans plus gaps.
MaxIntervals == 4

\* The numbers of buffers a problem may have.
BufferCounts == {0, 1, 2, 3}

\* The time values an interval may start or end at: the grid of the scenario
\* of two overlapping buffers, [0,10) and [5,15).
TimeValues == {0, 5, 10, 15}

\* Every buffer has this size; a windowed gap carries one of GapWindows.
BufferSizes == {4}
GapWindows == {<<0, 2>>}

\* What the collaborator Buffer::effective_size may return besides nullopt.
EffectiveSizes == {4}

\* ------------------------------------------------------------------------
\* Values.  std::optional<T> is a sequence of length 0 (nullopt) or 1.
\* ------------------------------------------------------------------------

Nullopt == << >>
Some(x) == <<x>>
HasValue(o) == Len(o) = 1
ValueOf(o) == o[1]

\* enum PointType { kRightGap, kRight, kLeft, kLeftGap }
kRightGap == 0
kRight == 1
kLeft == 2
kLeftGap == 3

\* A default-constructed SectionRange (Partition().section_range).
DefaultSectionRange == <<0, 0>>

\* Partition(): no buffers, default section range.
NewPartition == [buffer_idxs |-> << >>, section_range |-> DefaultSectionRange]

Lower(i) == i[1]
Upper(i) == i[2]

\* ------------------------------------------------------------------------
\* The inputs: problems of well-formed buffers.
\* ------------------------------------------------------------------------

\* Non-empty half-open intervals [l, u) inside [lo, hi].
IntervalsIn(lo, hi) ==
  {<<l, u>> \in TimeValues \X TimeValues : lo <= l /\ l < u /\ u <= hi}

Lifespans == {<<l, u>> \in TimeValues \X TimeValues : l < u}

OptWindows == {Nullopt} \cup {Some(w) : w \in GapWindows}

GapsOf(ls) ==
  {[lifespan |-> g, window |-> w] : g \in IntervalsIn(Lower(ls), Upper(ls)),
                                    w \in OptWindows}

\* A fixed order on gaps, so that a gap list is written in one way only
\* (std::sort makes the order of buffer.gaps irrelevant).
GapBefore(g, h) ==
  \/ Lower(g.lifespan) < Lower(h.lifespan)
  \/ /\ Lower(g.lifespan) = Lower(h.lifespan)
     /\ Upper(g.lifespan) < Upper(h.lifespan)
  \/ /\ g.lifespan = h.lifespan
     /\ Len(g.window) < Len(h.window)

\* The gap lists of length k of a buffer with lifespan ls, in that order.
RECURSIVE GapLists(_, _)
GapLists(ls, k) ==
  IF k = 0 THEN {<< >>}
  ELSE LET shorter == GapLists(ls, k - 1)
           gaps == GapsOf(ls)
           ordered == {sg \in shorter \X gaps :
                         Len(sg[1]) = 0 \/ GapBefore(sg[1][Len(sg[1])], sg[2])}
       IN {Append(sg[1], sg[2]) : sg \in ordered}

\* The buffers with k gaps.
BuffersWith(k) ==
  UNION {{[lifespan |-> ls, size |-> sz, gaps |-> gs] :
            sz \in BufferSizes, gs \in GapLists(ls, k)} :
         ls \in Lifespans}

BuffersByGaps == [k \in 0..MaxIntervals |-> BuffersWith(k)]

\* The numbers of gaps of n buffers that have at most g gaps in all.
RECURSIVE SumOfFirst(_, _)
SumOfFirst(ks, i) == IF i = 0 THEN 0 ELSE ks[i] + SumOfFirst(ks, i - 1)

GapCounts(n, g) == {ks \in [1..n -> 0..g] : SumOfFirst(ks, n) <= g}

\* The problems whose first i buffers have ks[1], ..., ks[i] gaps.
RECURSIVE ProblemsWith(_, _)
ProblemsWith(ks, i) ==
  IF i = 0 THEN {<< >>}
  ELSE LET front == ProblemsWith(ks, i - 1)
       IN {Append(prob, b) : prob \in front, b \in BuffersByGaps[ks[i]]}

\* ------------------------------------------------------------------------
\* State.
\* ------------------------------------------------------------------------

VARIABLES
  problem,            \* problem.buffers; buffer index b is problem[b + 1]
  points,             \* the points not yet processed
  actives,            \* Section actives
  alive,              \* Section alive
  last_section_time,  \* TimeValue last_section_time
  last_section_idx,   \* SectionIdx last_section_idx
  sections,           \* result.sections
  partitions,         \* result.partitions
  section_spans,      \* result.buffer_data[b].section_spans
  overlaps,           \* overlaps[c][b]: result.buffer_data[b].overlaps when
                      \* effective_size is collaborator c
  section_start,      \* buffer_idx_to_section_start
  cur_window,         \* buffer_idx_to_window
  undefined,          \* an operation with undefined behaviour was executed
  cuts,               \* what CalculateCuts returned
  phase,              \* "sweep", then "cuts" once CalculateCuts was called
  lastPoint,          \* the point processed by the last step (history)
  lastQueries,        \* the <<self, other>> of the effective_size calls of
                      \* the last step (history)
  returned,           \* the same of every call so far (history)
  coactive            \* pairs that were in actives together (history)

vars == <<problem, points, actives, alive, last_section_time,
          last_section_idx, sections, partitions, section_spans, overlaps,
          section_start, cur_window, undefined, cuts, phase, lastPoint,
          lastQueries, returned, coactive>>

NumBuffers == Len(problem)
BufferIdxs == 0..(NumBuffers - 1)
BufferAt(b) == problem[b + 1]

\* ------------------------------------------------------------------------
\* The event model (sweeper.cc:30-43, 85-104).
\* ------------------------------------------------------------------------

\* Point::operator<: by time, then point type, then buffer index.
Less(p, q) ==
  IF p.time_value # q.time_value THEN p.time_value < q.time_value
  ELSE IF p.point_type # q.point_type THEN p.point_type < q.point_type
  ELSE p.buffer_idx < q.buffer_idx

\* The points pushed for buffer b.  gap_idx (0 for the lifespan's points)
\* only keeps the points of different gaps apart: points is a multiset.
PointsOfBuffer(prob, b) ==
  LET buffer == prob[b + 1] IN
    {[buffer_idx |-> b, time_value |-> Lower(buffer.lifespan),
      point_type |-> kLeft, window |-> Nullopt, gap_idx |-> 0],
     [buffer_idx |-> b, time_value |-> Upper(buffer.lifespan),
      point_type |-> kRight, window |-> Nullopt, gap_idx |-> 0]}
    \cup
    UNION {{[buffer_idx |-> b, time_value |-> Lower(buffer.gaps[k].lifespan),
             point_type |-> kRightGap, window |-> buffer.gaps[k].window,
             gap_idx |-> k],
            [buffer_idx |-> b, time_value |-> Upper(buffer.gaps[k].lifespan),
             point_type |-> kLeftGap, window |-> buffer.gaps[k].window,
             gap_idx |-> k]} : k \in 1..Len(buffer.gaps)}

PointsOf(prob) == UNION {PointsOfBuffer(prob, b) : b \in 0..(Len(prob) - 1)}

\* std::sort followed by the loop over the points: the next point is one
\* that no remaining point precedes.  Points that operator< does not order
\* (two gaps of one buffer starting, or ending, at the same time) come in
\* either order.
NextPoints == {p \in points : \A q \in points : ~Less(q, p)}

\* The six derived conditions of the loop body (sweeper.cc:121-126).
IsLeft(p) == p.point_type = kLeft
IsRight(p) == p.point_type = kRight
IsEmptyLeftGap(p) == p.point_type = kLeftGap /\ ~HasValue(p.window)
IsEmptyRightGap(p) == p.point_type = kRightGap /\ ~HasValue(p.window)
IsWindowedLeftGap(p) == p.point_type = kLeftGap /\ HasValue(p.window)
IsWindowedRightGap(p) == p.point_type = kRightGap /\ HasValue(p.window)

\* {0, buffer.size}
FullWindow(prob, b) == <<0, prob[b + 1].size>>

\* ------------------------------------------------------------------------
\* One iteration of the loop over the sorted points (sweeper.cc:115-199).
\* ------------------------------------------------------------------------

\* if (last_section_time == -1) last_section_time = time_value;
InitSectionTime(lst, p) == IF lst = -1 THEN p.time_value ELSE lst

\* if (isWindowedRightGap) buffer_idx_to_window[buffer_idx] = {0, size};
WindowAtGapStart(win, p) ==
  IF IsWindowedRightGap(p)
    THEN [win EXCEPT ![p.buffer_idx] = FullWindow(problem, p.buffer_idx)]
    ELSE win

\* The events that may flush a section and that close the buffer's span.
ClosesSpan(p) ==
  IsRight(p) \/ IsEmptyRightGap(p) \/ IsWindowedRightGap(p)
    \/ IsWindowedLeftGap(p)

\* A sweep that flushes a section on every kind of point.
FlushesOnEveryPoint(lst, p) == lst < p.time_value

\* A sweep that flushes on every closing event, whatever its time.
FlushesIgnoringTime(lst, p) == ClosesSpan(p)

\* if (last_section_time < time_value) inside the flush branch.
FlushesSection(lst, p) == ClosesSpan(p) /\ lst < p.time_value

\* A sweep that deactivates the buffer at the start of every gap.
RemovesActiveAtAnyGapStart(p) == IsRight(p) \/ p.point_type = kRightGap

\* actives.erase(buffer_idx)
RemovesActive(p) == IsRight(p) \/ IsEmptyRightGap(p)

\* alive.erase(buffer_idx)
RemovesAlive(p) == IsRight(p)

\* if (isWindowedLeftGap) buffer_idx_to_window[buffer_idx] = *window;
WindowAtGapEnd(win, p) ==
  IF IsWindowedLeftGap(p)
    THEN [win EXCEPT ![p.buffer_idx] = ValueOf(p.window)]
    ELSE win

\* The events that (re)activate the buffer: partition opening, overlap
\* computation and actives.insert.
InsertsActive(p) == IsLeft(p) \/ IsEmptyLeftGap(p)

\* alive.insert(buffer_idx) and partitions.back().buffer_idxs.push_back.
InsertsAlive(p) == IsLeft(p)

\* A sweep that opens no span at the start of a windowed gap.
OpensSpanNotAtGapStart(p) ==
  IsLeft(p) \/ IsEmptyLeftGap(p) \/ IsWindowedLeftGap(p)

\* The events that set buffer_idx_to_section_start.
OpensSpan(p) ==
  IsLeft(p) \/ IsEmptyLeftGap(p) \/ IsWindowedLeftGap(p)
    \/ IsWindowedRightGap(p)

\* The buffers the overlap loop pairs the activating buffer with.
OverlapPartners(p, act) == IF InsertsActive(p) THEN act ELSE {}

\* An overlap loop that stores each direction's size on the wrong buffer.
OverlapsSwapped(ov, p, partners, fwd, rev, x) ==
  ov[x]
    \cup (IF x \in partners /\ HasValue(rev[x])
            THEN {<<p.buffer_idx, ValueOf(rev[x])>>} ELSE {})
    \cup (IF x = p.buffer_idx
            THEN {<<a, ValueOf(fwd[a])>> : a \in {y \in partners : HasValue(fwd[y])}}
            ELSE {})

\* The overlap entries of buffer x after the loop: fwd[a] is what
\* active.effective_size(buffer) returned for active a, rev[a] what
\* buffer.effective_size(active) returned.
OverlapsAfter(ov, p, partners, fwd, rev, x) ==
  ov[x]
    \cup (IF x \in partners /\ HasValue(fwd[x])
            THEN {<<p.buffer_idx, ValueOf(fwd[x])>>} ELSE {})
    \cup (IF x = p.buffer_idx
            THEN {<<a, ValueOf(rev[a])>> : a \in {y \in partners : HasValue(rev[y])}}
            ELSE {})

\* The collaborator Buffer::effective_size(other) is opaque to the sweep.
\* It is one of these functions: whether it returns a value depends on
\* whether the other buffer's index is lower or higher than the buffer's
\* own, so that the two directions of a pair are independent.  The sweep
\* is deterministic given the collaborator, and the model keeps the overlaps
\* it records for each of them.
Collaborators == [lower : BOOLEAN, higher : BOOLEAN]

EffectiveSize(c, self, other) ==
  IF (other < self /\ c.lower) \/ (other >= self /\ c.higher)
    THEN Some(CHOOSE s \in EffectiveSizes : TRUE)
    ELSE Nullopt

\* The body of the loop for point p.
ProcessPoint(p) ==
  LET b == p.buffer_idx
      lst1 == InitSectionTime(last_section_time, p)
      win1 == WindowAtGapStart(cur_window, p)
      flush == FlushesSection(lst1, p)
      lst2 == IF flush THEN p.time_value ELSE lst1
      sections1 == IF flush THEN Append(sections, actives) ELSE sections
      actives1 == IF RemovesActive(p) THEN actives \ {b} ELSE actives
      alive1 == IF RemovesAlive(p) THEN alive \ {b} ELSE alive
      close == ClosesSpan(p) /\ section_start[b] # -1
      span == [section_range |-> <<section_start[b], Len(sections1)>>,
               window |-> win1[b]]
      spans1 == IF close
                  THEN [section_spans EXCEPT ![b] = Append(@, span)]
                  ELSE section_spans
      assign == close /\ alive1 = {}
      \* result.partitions.back() of an empty vector
      noBack == assign /\ partitions = << >>
      partitions1 == IF assign /\ ~noBack
                       THEN [partitions EXCEPT ![Len(partitions)].section_range =
                               <<last_section_idx, Len(sections1)>>]
                       ELSE partitions
      lsi1 == IF assign THEN Len(sections1) ELSE last_section_idx
      start1 == IF close THEN [section_start EXCEPT ![b] = -1]
                ELSE section_start
      win2 == WindowAtGapEnd(win1, p)
      partitions2 == IF InsertsActive(p) /\ alive1 = {}
                       THEN Append(partitions1, NewPartition)
                       ELSE partitions1
      partitions3 == IF InsertsAlive(p)
                       THEN [partitions2 EXCEPT ![Len(partitions2)].buffer_idxs =
                               Append(@, b)]
                       ELSE partitions2
      partners == OverlapPartners(p, actives1)
      actives2 == IF InsertsActive(p) THEN actives1 \cup {b} ELSE actives1
      alive2 == IF InsertsAlive(p) THEN alive1 \cup {b} ELSE alive1
      start2 == IF OpensSpan(p) THEN [start1 EXCEPT ![b] = Len(sections1)]
                ELSE start1
  IN
    /\ phase = "sweep"
    /\ ~undefined
    /\ points' = points \ {p}
    /\ lastPoint' = Some(p)
    /\ UNCHANGED <<problem, cuts, phase>>
    /\ IF noBack
         THEN /\ undefined' = TRUE
              /\ lastQueries' = {}
              /\ UNCHANGED <<actives, alive, last_section_time,
                             last_section_idx, sections, partitions,
                             section_spans, overlaps, section_start,
                             cur_window, returned, coactive>>
         ELSE /\ undefined' = FALSE
              /\ last_section_time' = lst2
              /\ sections' = sections1
              /\ section_spans' = spans1
              /\ last_section_idx' = lsi1
              /\ cur_window' = win2
              /\ partitions' = partitions3
              /\ actives' = actives2
              /\ alive' = alive2
              /\ section_start' = start2
              /\ coactive' = coactive \cup
                   {<<x, y>> \in actives2 \X actives2 : x # y}
              /\ overlaps' = [c \in Collaborators |->
                   [x \in BufferIdxs |->
                      OverlapsAfter(overlaps[c], p, partners,
                                    [a \in partners |-> EffectiveSize(c, a, b)],
                                    [a \in partners |-> EffectiveSize(c, b, a)],
                                    x)]]
              /\ lastQueries' = {<<a, b>> : a \in partners}
                                  \cup {<<b, a>> : a \in partners}
              /\ returned' = returned \cup lastQueries'

\* One action per kind of point; the point is the next one in sorted order.
ProcessLeft == \E p \in NextPoints : IsLeft(p) /\ ProcessPoint(p)
ProcessRight == \E p \in NextPoints : IsRight(p) /\ ProcessPoint(p)
ProcessEmptyRightGap == \E p \in NextPoints : IsEmptyRightGap(p) /\ ProcessPoint(p)
ProcessEmptyLeftGap == \E p \in NextPoints : IsEmptyLeftGap(p) /\ ProcessPoint(p)
ProcessWindowedRightGap ==
  \E p \in NextPoints : IsWindowedRightGap(p) /\ ProcessPoint(p)
ProcessWindowedLeftGap ==
  \E p \in NextPoints : IsWindowedLeftGap(p) /\ ProcessPoint(p)

\* ------------------------------------------------------------------------
\* SweepResult::CalculateCuts (sweeper.cc:207-217).
\* ------------------------------------------------------------------------

\* An inner loop that runs while s_idx < hi.
IncrementCutsOneMore(c, lo, hi) ==
  [i \in 1..Len(c) |-> IF lo <= i - 1 /\ i - 1 < hi THEN c[i] + 1 ELSE c[i]]

\* The inner loop: ++cuts[s_idx] for s_idx from lo while s_idx + 1 < hi.
\* Counter s_idx is c[s_idx + 1].
IncrementCuts(c, lo, hi) ==
  [i \in 1..Len(c) |-> IF lo <= i - 1 /\ (i - 1) + 1 < hi THEN c[i] + 1 ELSE c[i]]

\* The outer loop over buffer_data, from buffer b on.
RECURSIVE CutsFrom(_, _, _)
CutsFrom(spans, c, b) ==
  IF b \notin DOMAIN spans THEN c
  ELSE CutsFrom(spans,
                IncrementCuts(c,
                              Lower(spans[b][1].section_range),
                              Upper(spans[b][Len(spans[b])].section_range)),
                b + 1)

\* std::vector<CutCount> cuts(sections.size() - 1): the size is unsigned, so
\* with no section the length wraps around and the constructor throws.
CutsLengthWraps(secs) == Len(secs) = 0

\* section_spans.front() and back() of an empty vector.
CutsReadsEmptySpans(spans) == \E b \in DOMAIN spans : spans[b] = << >>

CalculateCuts(secs, spans) ==
  CutsFrom(spans, [i \in 1..(Len(secs) - 1) |-> 0], 0)

\* Sweep has returned its result and the caller calls CalculateCuts on it.
CalculateCutsCall ==
  /\ phase = "sweep"
  /\ ~undefined
  /\ points = {}
  /\ phase' = "cuts"
  /\ IF CutsLengthWraps(sections)
       THEN /\ cuts' = [thrown |-> TRUE, counts |-> << >>]
            /\ undefined' = undefined
       ELSE IF CutsReadsEmptySpans(section_spans)
         THEN /\ cuts' = [thrown |-> FALSE, counts |-> << >>]
              /\ undefined' = TRUE
         ELSE /\ cuts' = [thrown |-> FALSE,
                          counts |-> CalculateCuts(sections, section_spans)]
              /\ undefined' = undefined
  /\ UNCHANGED <<problem, points, actives, alive, last_section_time,
                 last_section_idx, sections, partitions, section_spans,
                 overlaps, section_start, cur_window, returned, coactive>>
  /\ lastPoint' = Nullopt
  /\ lastQueries' = {}

\* ------------------------------------------------------------------------
\* The specification.
\* ------------------------------------------------------------------------

\* The state at the top of the loop over the points (sweeper.cc:81-114).
Init ==
  /\ \E n \in {m \in BufferCounts : m <= MaxIntervals} :
       \E ks \in GapCounts(n, MaxIntervals - n) :
         problem \in ProblemsWith(ks, n)
  /\ points = PointsOf(problem)
  /\ actives = {}
  /\ alive = {}
  /\ last_section_time = -1
  /\ last_section_idx = 0
  /\ sections = << >>
  /\ partitions = << >>
  /\ section_spans = [b \in BufferIdxs |-> << >>]
  /\ overlaps = [c \in Collaborators |-> [b \in BufferIdxs |-> {}]]
  /\ section_start = [b \in BufferIdxs |-> -1]
  /\ cur_window = [b \in BufferIdxs |-> FullWindow(problem, b)]
  /\ undefined = FALSE
  /\ cuts = [thrown |-> FALSE, counts |-> << >>]
  /\ phase = "sweep"
  /\ lastPoint = Nullopt
  /\ lastQueries = {}
  /\ returned = {}
  /\ coactive = {}

Next ==
  \/ ProcessLeft
  \/ ProcessRight
  \/ ProcessEmptyRightGap
  \/ ProcessEmptyLeftGap
  \/ ProcessWindowedRightGap
  \/ ProcessWindowedLeftGap
  \/ CalculateCutsCall

Spec == Init /\ [][Next]_vars

\* ------------------------------------------------------------------------
\* Notions the properties are stated with.
\* ------------------------------------------------------------------------

\* Sweep has processed every point.
AllProcessed == points = {} /\ ~undefined

\* CalculateCuts has returned a vector.
CutsReturned == phase = "cuts" /\ ~undefined /\ ~cuts.thrown

SectionRangeOf(i) == partitions[i].section_range

\* Some emitted section contains both a and b.
InSomeSection(a, b) ==
  \E i \in 1..Len(sections) : a \in sections[i] /\ b \in sections[i]

\* The overlap entries of buffer a, under collaborator c, that name b.
EntriesFor(c, a, b) == {e \in overlaps[c][a] : e[1] = b}

\* The lifespans of a and b, half-open, share a time value.
LifespansOverlap(a, b) ==
  /\ Lower(BufferAt(a).lifespan) < Upper(BufferAt(b).lifespan)
  /\ Lower(BufferAt(b).lifespan) < Upper(BufferAt(a).lifespan)

\* The buffers reached from the set S by chains of overlapping lifespans.
RECURSIVE ChainFrom(_)
ChainFrom(S) ==
  LET T == S \cup {b \in BufferIdxs : \E a \in S : LifespansOverlap(a, b)}
  IN IF T = S THEN S ELSE ChainFrom(T)

Connected(a, b) == b \in ChainFrom({a})

\* Gap k of buffer b.
GapOf(b, k) == BufferAt(b).gaps[k]
GapIdxs(b) == 1..Len(BufferAt(b).gaps)

\* Gap k of buffer b lies strictly inside b's lifespan.
GapStrictlyInside(b, k) ==
  /\ Lower(BufferAt(b).lifespan) < Lower(GapOf(b, k).lifespan)
  /\ Upper(GapOf(b, k).lifespan) < Upper(BufferAt(b).lifespan)

\* ------------------------------------------------------------------------
\* C1.  Partition cover.
\* ------------------------------------------------------------------------

\* C1: once Sweep has processed all events, the partitions' section ranges,
\* in partition order, start at 0, each start where the previous one ends,
\* have lower <= upper, and end at sections.size().
C1_PartitionCover ==
  AllProcessed =>
    /\ Len(partitions) = 0 => Len(sections) = 0
    /\ Len(partitions) > 0 =>
         /\ Lower(SectionRangeOf(1)) = 0
         /\ \A i \in 1..Len(partitions) :
              Lower(SectionRangeOf(i)) <= Upper(SectionRangeOf(i))
         /\ \A i \in 1..(Len(partitions) - 1) :
              Lower(SectionRangeOf(i + 1)) = Upper(SectionRangeOf(i))
         /\ Upper(SectionRangeOf(Len(partitions))) = Len(sections)

\* ------------------------------------------------------------------------
\* C2.  Windowed gap.
\* ------------------------------------------------------------------------

\* Buffer b has exactly one gap, which carries a window and lies strictly
\* inside b's lifespan.
HasOneWindowedGap(b) ==
  /\ Len(BufferAt(b).gaps) = 1
  /\ HasValue(GapOf(b, 1).window)
  /\ GapStrictlyInside(b, 1)

\* C2: for a buffer with one windowed gap inside its lifespan, Sweep records
\* exactly three spans; the second carries the gap's window and the first
\* and third carry the full window {0, size}.
C2_WindowedGapSpans ==
  AllProcessed =>
    \A b \in BufferIdxs :
      HasOneWindowedGap(b) =>
        /\ Len(section_spans[b]) = 3
        /\ section_spans[b][1].window = FullWindow(problem, b)
        /\ section_spans[b][2].window = ValueOf(GapOf(b, 1).window)
        /\ section_spans[b][3].window = FullWindow(problem, b)

\* ------------------------------------------------------------------------
\* C3.  Two overlapping buffers.
\* ------------------------------------------------------------------------

\* A with lifespan [0,10) and B with lifespan [5,15), both of size 4, no gaps.
TwoOverlappingBuffers ==
  << [lifespan |-> <<0, 10>>, size |-> 4, gaps |-> << >>],
     [lifespan |-> <<5, 15>>, size |-> 4, gaps |-> << >>] >>

\* Each of A (index 0) and B (index 1) has one overlap entry naming the other
\* when the collaborator returns an effective size, and none otherwise.
OverlapEntriesOfPair ==
  \A c \in Collaborators :
    /\ overlaps[c][0] = {<<1, ValueOf(e)>> :
                           e \in {x \in {EffectiveSize(c, 0, 1)} : HasValue(x)}}
    /\ overlaps[c][1] = {<<0, ValueOf(e)>> :
                           e \in {x \in {EffectiveSize(c, 1, 0)} : HasValue(x)}}

\* C3 as stated: 3 sections {A}, {A,B}, {B}, one partition over all 3, the
\* overlap entries, and 2 cut counts equal to 1.
C3_ThreeSections ==
  (problem = TwoOverlappingBuffers /\ phase = "cuts") =>
    /\ sections = <<{0}, {0, 1}, {1}>>
    /\ partitions = <<[buffer_idxs |-> <<0, 1>>, section_range |-> <<0, 3>>]>>
    /\ OverlapEntriesOfPair
    /\ cuts = [thrown |-> FALSE, counts |-> <<1, 1>>]

\* C3 amended: 2 sections {A,B}, {B} (no section is flushed when B starts),
\* one partition over both, the overlap entries, and 1 cut count equal to 1.
C3_TwoSections ==
  (problem = TwoOverlappingBuffers /\ phase = "cuts") =>
    /\ sections = <<{0, 1}, {1}>>
    /\ partitions = <<[buffer_idxs |-> <<0, 1>>, section_range |-> <<0, 2>>]>>
    /\ OverlapEntriesOfPair
    /\ cuts = [thrown |-> FALSE, counts |-> <<1>>]

\* The scenario was swept, its cuts were calculated, and for some collaborator
\* both buffers got their entry.
C3_Witness ==
  /\ problem = TwoOverlappingBuffers
  /\ phase = "cuts"
  /\ \E c \in Collaborators : overlaps[c][0] # {} /\ overlaps[c][1] # {}

\* ------------------------------------------------------------------------
\* C4.  Overlap symmetry by construction.
\* ------------------------------------------------------------------------

\* The last step inserted buffer b into actives.
JustActivated(b) ==
  /\ HasValue(lastPoint)
  /\ ~undefined
  /\ InsertsActive(ValueOf(lastPoint))
  /\ ValueOf(lastPoint).buffer_idx = b

\* C4: (1) when a buffer b is inserted into actives while another buffer a
\* is there, that event calls effective_size in both directions; (2) a's
\* overlap set holds (b, S) exactly if effective_size of a against b was
\* called and returned S, whatever it returned for b against a; (3) it is
\* called only for pairs that are in actives together, so a pair that never
\* is records nothing in either direction.
C4_OverlapSymmetry ==
  \A a, b \in BufferIdxs :
    a # b =>
      /\ (JustActivated(b) /\ a \in actives) =>
           (<<a, b>> \in lastQueries /\ <<b, a>> \in lastQueries)
      /\ <<a, b>> \in coactive =>
           (<<a, b>> \in returned /\ <<b, a>> \in returned)
      /\ \A c \in Collaborators :
           EntriesFor(c, a, b) =
             {<<b, ValueOf(e)>> :
                e \in {x \in {EffectiveSize(c, a, b)} :
                         HasValue(x) /\ <<a, b>> \in returned}}
      /\ <<a, b>> \in returned => <<a, b>> \in coactive
      /\ <<a, b>> \notin coactive =>
           \A c \in Collaborators :
             EntriesFor(c, a, b) = {} /\ EntriesFor(c, b, a) = {}

\* Two buffers were in actives together and the collaborator returned a size
\* for one direction only: one has its entry, the other has none.
C4_Witness ==
  \E a, b \in BufferIdxs, c \in Collaborators :
    /\ a # b
    /\ JustActivated(b)
    /\ a \in actives
    /\ EntriesFor(c, a, b) # {}
    /\ EntriesFor(c, b, a) = {}

\* ------------------------------------------------------------------------
\* C5.  Coarsened sections lose no co-activation.
\* ------------------------------------------------------------------------

\* C5: once all events are processed, two buffers were in actives at the
\* same time exactly if some emitted section contains both.
C5_CoactivationInSections ==
  AllProcessed =>
    \A a, b \in BufferIdxs :
      a # b => (<<a, b>> \in coactive <=> InSomeSection(a, b))

\* ------------------------------------------------------------------------
\* C6.  Span disjointness.
\* ------------------------------------------------------------------------

SpanRange(b, i) == section_spans[b][i].section_range

\* C6: every recorded span has lower <= upper, and of two consecutive spans
\* of a buffer the later one starts strictly after the earlier one starts
\* and not before the earlier one ends.
C6_SpanDisjointness ==
  \A b \in BufferIdxs :
    /\ \A i \in 1..Len(section_spans[b]) :
         Lower(SpanRange(b, i)) <= Upper(SpanRange(b, i))
    /\ \A i \in 1..(Len(section_spans[b]) - 1) :
         /\ Lower(SpanRange(b, i + 1)) > Lower(SpanRange(b, i))
         /\ Lower(SpanRange(b, i + 1)) >= Upper(SpanRange(b, i))

\* ------------------------------------------------------------------------
\* C7.  Empty gap isolates.
\* ------------------------------------------------------------------------

\* Buffer b's lifespan lies within gap k of buffer a, which has no window.
LivesInEmptyGap(b, a, k) ==
  /\ ~HasValue(GapOf(a, k).window)
  /\ Lower(GapOf(a, k).lifespan) <= Lower(BufferAt(b).lifespan)
  /\ Upper(BufferAt(b).lifespan) <= Upper(GapOf(a, k).lifespan)

\* Neither buffer has an overlap entry for the other, whatever the
\* collaborator.
NoOverlapBetween(a, b) ==
  \A c \in Collaborators : EntriesFor(c, a, b) = {} /\ EntriesFor(c, b, a) = {}

\* C7: if B lives within a window-less gap of A, then A and B are never in
\* actives together, no section contains both, and neither has an overlap
\* entry for the other.
C7_EmptyGapIsolates ==
  \A a, b \in BufferIdxs :
    (a # b /\ \E k \in GapIdxs(a) : LivesInEmptyGap(b, a, k)) =>
      /\ ~(a \in actives /\ b \in actives)
      /\ <<a, b>> \notin coactive
      /\ ~InSomeSection(a, b)
      /\ NoOverlapBetween(a, b)

\* ------------------------------------------------------------------------
\* C8.  Half-open lifespans.
\* ------------------------------------------------------------------------

\* C8: if A's lifespan ends no later than B's begins, A and B are never in
\* actives or in alive together, no section contains both, and neither has
\* an overlap entry for the other.
C8_HalfOpenLifespans ==
  \A a, b \in BufferIdxs :
    (a # b /\ Upper(BufferAt(a).lifespan) <= Lower(BufferAt(b).lifespan)) =>
      /\ ~(a \in actives /\ b \in actives)
      /\ ~(a \in alive /\ b \in alive)
      /\ <<a, b>> \notin coactive
      /\ ~InSomeSection(a, b)
      /\ NoOverlapBetween(a, b)

\* ------------------------------------------------------------------------
\* C9.  Partition grouping.
\* ------------------------------------------------------------------------

\* The places <<i, j>> of buffer b in the partitions' buffer lists.
PlacesOf(b) ==
  {<<i, j>> \in (1..Len(partitions)) \X (1..NumBuffers) :
     j <= Len(partitions[i].buffer_idxs) /\ partitions[i].buffer_idxs[j] = b}

SamePartition(a, b) ==
  \E pa \in PlacesOf(a), pb \in PlacesOf(b) : pa[1] = pb[1]

\* Buffer b starts while no buffer that started before it (in the order of
\* the events) is within its lifespan.
StartsWhileNoneAlive(b) ==
  ~\E a \in BufferIdxs :
     /\ a # b
     /\ \/ Lower(BufferAt(a).lifespan) < Lower(BufferAt(b).lifespan)
        \/ /\ Lower(BufferAt(a).lifespan) = Lower(BufferAt(b).lifespan)
           /\ a < b
     /\ Upper(BufferAt(a).lifespan) > Lower(BufferAt(b).lifespan)

\* C9: no partition has an empty buffer list; once all events are processed
\* every buffer is in exactly one list, two buffers share a partition exactly
\* if a chain of overlapping lifespans connects them, and there are as many
\* partitions as buffers that start while none is alive.
C9_PartitionGrouping ==
  /\ \A i \in 1..Len(partitions) : partitions[i].buffer_idxs # << >>
  /\ AllProcessed =>
       /\ \A b \in BufferIdxs : Cardinality(PlacesOf(b)) = 1
       /\ \A a, b \in BufferIdxs : SamePartition(a, b) <=> Connected(a, b)
       /\ Len(partitions) =
            Cardinality({b \in BufferIdxs : StartsWhileNoneAlive(b)})

\* ------------------------------------------------------------------------
\* C10.  Cut monotonicity versus partitions.
\* ------------------------------------------------------------------------

\* C10: every boundary i strictly inside a partition's section range [l, u)
\* (l <= i and i + 1 < u) has a positive cut count.
C10_CutsInsidePartitions ==
  CutsReturned =>
    \A k \in 1..Len(partitions) :
      \A i \in 0..(Len(sections) - 2) :
        (Lower(SectionRangeOf(k)) <= i /\ i + 1 < Upper(SectionRangeOf(k))) =>
          cuts.counts[i + 1] > 0

\* ------------------------------------------------------------------------
\* C11.  Zero cut means decomposable.
\* ------------------------------------------------------------------------

\* Buffer b is in a section with index <= i and in one with index > i
\* (section index s is sections[s + 1]).
OnBothSides(b, i) ==
  /\ \E s \in 0..i : s < Len(sections) /\ b \in sections[s + 1]
  /\ \E s \in (i + 1)..(Len(sections) - 1) : b \in sections[s + 1]

\* C11: for every boundary i whose cut count is 0, no buffer is in a section
\* on either side of the boundary.
C11_ZeroCutDecomposable ==
  CutsReturned =>
    \A i \in 0..(Len(cuts.counts) - 1) :
      cuts.counts[i + 1] = 0 => \A b \in BufferIdxs : ~OnBothSides(b, i)

\* ------------------------------------------------------------------------
\* C12.  Section flush rule.
\* ------------------------------------------------------------------------

\* The event kinds that may flush: true end, gap start, windowed gap end.
MayFlush(p) ==
  IsRight(p) \/ IsEmptyRightGap(p) \/ IsWindowedRightGap(p)
    \/ IsWindowedLeftGap(p)

\* What one step may do to the sections and to the time of the last flush.
FlushRuleStep ==
  /\ \/ sections' = sections
     \/ /\ sections' = Append(sections, actives)
        /\ HasValue(lastPoint')
        /\ MayFlush(ValueOf(lastPoint'))
        /\ last_section_time # -1
        /\ ValueOf(lastPoint').time_value > last_section_time
        /\ last_section_time' = ValueOf(lastPoint').time_value
  /\ (HasValue(lastPoint') /\ ~MayFlush(ValueOf(lastPoint'))) =>
       sections' = sections
  /\ last_section_time # -1 =>
       /\ last_section_time' >= last_section_time
       /\ last_section_time' > last_section_time <=>
            Len(sections') = Len(sections) + 1

\* C12: a step changes the sections only by appending the current actives,
\* only on a true end, a gap start or a windowed gap end whose time exceeds
\* the time of the previous flush (at first the time of the first event);
\* flush times increase strictly and appended sections never change.
C12_SectionFlushRule == [][FlushRuleStep]_vars

\* A windowed gap end has just flushed a section, not the first one: no
\* other event that may flush has its time.
C12_Witness ==
  /\ HasValue(lastPoint)
  /\ ~undefined
  /\ IsWindowedLeftGap(ValueOf(lastPoint))
  /\ last_section_time = ValueOf(lastPoint).time_value
  /\ Len(sections) >= 2
  /\ sections[Len(sections)] = actives
  /\ \A q \in BufferIdxs :
       \A k \in GapIdxs(q) :
         Lower(GapOf(q, k).lifespan) # ValueOf(lastPoint).time_value
  /\ \A q \in BufferIdxs :
       Upper(BufferAt(q).lifespan) # ValueOf(lastPoint).time_value

\* ------------------------------------------------------------------------
\* C13.  Span count.
\* ------------------------------------------------------------------------

\* A second family of inputs, on a finer time grid: a buffer with lifespan
\* [0,5) whose gaps lie strictly inside it, alone or with one buffer
\* without gaps.
FineLifespan == <<0, 5>>
FineTimeValues == {1, 2, 3, 4}
FineNeighbours == {<<0, 3>>, <<2, 5>>}

FineGaps ==
  {[lifespan |-> <<l, u>>, window |-> w] :
     <<l, u>> \in {lu \in FineTimeValues \X FineTimeValues : lu[1] < lu[2]},
     w \in OptWindows}

\* The lists of k of these gaps, in the order GapBefore.
RECURSIVE FineGapLists(_)
FineGapLists(k) ==
  IF k = 0 THEN {<< >>}
  ELSE LET ordered == {sg \in FineGapLists(k - 1) \X FineGaps :
                         Len(sg[1]) = 0 \/ GapBefore(sg[1][Len(sg[1])], sg[2])}
       IN {Append(sg[1], sg[2]) : sg \in ordered}

FineProblems(k) ==
  LET gapped == {[lifespan |-> FineLifespan, size |-> sz, gaps |-> gs] :
                   sz \in BufferSizes, gs \in FineGapLists(k)}
      plain == {[lifespan |-> ls, size |-> sz, gaps |-> << >>] :
                  ls \in FineNeighbours, sz \in BufferSizes}
  IN {<<g>> : g \in gapped}
       \cup {<<g, n>> : g \in gapped, n \in plain}
       \cup {<<n, g>> : g \in gapped, n \in plain}

InitFine ==
  /\ \E k \in 0..(MaxIntervals - 1) : problem \in FineProblems(k)
  /\ points = PointsOf(problem)
  /\ actives = {}
  /\ alive = {}
  /\ last_section_time = -1
  /\ last_section_idx = 0
  /\ sections = << >>
  /\ partitions = << >>
  /\ section_spans = [b \in BufferIdxs |-> << >>]
  /\ overlaps = [c \in Collaborators |-> [b \in BufferIdxs |-> {}]]
  /\ section_start = [b \in BufferIdxs |-> -1]
  /\ cur_window = [b \in BufferIdxs |-> FullWindow(problem, b)]
  /\ undefined = FALSE
  /\ cuts = [thrown |-> FALSE, counts |-> << >>]
  /\ phase = "sweep"
  /\ lastPoint = Nullopt
  /\ lastQueries = {}
  /\ returned = {}
  /\ coactive = {}

SpecFine == InitFine /\ [][Next]_vars

GapsStrictlyInside(b) == \A k \in GapIdxs(b) : GapStrictlyInside(b, k)

\* No gap of b ends where another gap of b starts.
GapsNonAdjacent(b) ==
  \A j, k \in GapIdxs(b) :
    j # k => Upper(GapOf(b, j).lifespan) # Lower(GapOf(b, k).lifespan)

\* Of two gaps of b, one ends before the other starts.
GapsApart(b) ==
  \A j, k \in GapIdxs(b) :
    j # k => \/ Upper(GapOf(b, j).lifespan) < Lower(GapOf(b, k).lifespan)
             \/ Upper(GapOf(b, k).lifespan) < Lower(GapOf(b, j).lifespan)

EmptyGapCount(b) ==
  Cardinality({k \in GapIdxs(b) : ~HasValue(GapOf(b, k).window)})

WindowedGapCount(b) ==
  Cardinality({k \in GapIdxs(b) : HasValue(GapOf(b, k).window)})

\* b has 1 + e + 2k spans, every one of them non-empty.
SpanCountAsExpected(b) ==
  /\ Len(section_spans[b]) = 1 + EmptyGapCount(b) + 2 * WindowedGapCount(b)
  /\ \A i \in 1..Len(section_spans[b]) :
       Lower(SpanRange(b, i)) < Upper(SpanRange(b, i))

\* C13 as stated: a buffer whose gaps are strictly inside its lifespan and
\* pairwise non-adjacent has 1 + e + 2k spans, all non-empty, once all
\* events are processed.
C13_SpanCountNonAdjacent ==
  AllProcessed =>
    \A b \in BufferIdxs :
      (GapsStrictlyInside(b) /\ GapsNonAdjacent(b)) => SpanCountAsExpected(b)

\* C13 amended: the same for a buffer whose gaps are strictly inside its
\* lifespan, pairwise disjoint and non-adjacent.
C13_SpanCountDisjoint ==
  AllProcessed =>
    \A b \in BufferIdxs :
      (GapsStrictlyInside(b) /\ GapsApart(b)) => SpanCountAsExpected(b)

\* A buffer with a window-less and a windowed gap, apart from each other,
\* was swept: it has 1 + 1 + 2 spans.
C13_Witness ==
  /\ AllProcessed
  /\ \E b \in BufferIdxs :
       /\ GapsStrictlyInside(b)
       /\ GapsApart(b)
       /\ EmptyGapCount(b) = 1
       /\ WindowedGapCount(b) = 1
       /\ Len(section_spans[b]) = 4

\* ------------------------------------------------------------------------
\* C14.  Cut counts against a reference.
\* ------------------------------------------------------------------------

FirstSpan(b) == section_spans[b][1].section_range
LastSpan(b) == section_spans[b][Len(section_spans[b])].section_range

\* The buffers whose first-to-last span range crosses boundary i.
CrossingBuffers(i) ==
  {b \in BufferIdxs : Lower(FirstSpan(b)) <= i /\ Upper(LastSpan(b)) > i + 1}

\* C14: for a sweep result with at least one section in which every buffer
\* has a span, CalculateCuts returns sections.size() - 1 counters, and
\* counter i is the number of buffers whose first span starts at or before
\* i and whose last span ends after i + 1.
C14_CutsReference ==
  (/\ phase = "cuts"
   /\ Len(sections) >= 1
   /\ \A b \in BufferIdxs : section_spans[b] # << >>) =>
    /\ ~undefined
    /\ ~cuts.thrown
    /\ Len(cuts.counts) = Len(sections) - 1
    /\ \A i \in 0..(Len(sections) - 2) :
         cuts.counts[i + 1] = Cardinality(CrossingBuffers(i))

\* Cuts were calculated for a result in which a buffer has three spans or
\* more and two buffers cross a boundary.
C14_Witness ==
  /\ CutsReturned
  /\ \E b \in BufferIdxs : Len(section_spans[b]) >= 3
  /\ \E i \in 1..Len(cuts.counts) : cuts.counts[i] >= 2

\* ------------------------------------------------------------------------
\* C15.  Frame of windowed-gap events.
\* ------------------------------------------------------------------------

\* The step processes a windowed gap start or a windowed gap end.
WindowedGapStep ==
  /\ HasValue(lastPoint')
  /\ \/ IsWindowedRightGap(ValueOf(lastPoint'))
     \/ IsWindowedLeftGap(ValueOf(lastPoint'))

\* What such a step leaves unchanged.
WindowedGapFrame ==
  /\ actives' = actives
  /\ alive' = alive
  /\ overlaps' = overlaps
  /\ Len(partitions') = Len(partitions)
  /\ \A i \in 1..Len(partitions) :
       partitions'[i].buffer_idxs = partitions[i].buffer_idxs
  /\ \A x \in BufferIdxs \ {ValueOf(lastPoint').buffer_idx} :
       /\ cur_window'[x] = cur_window[x]
       /\ section_start'[x] = section_start[x]

\* All events of the last processed time value have been processed.
TimeStepDone ==
  /\ HasValue(lastPoint)
  /\ ~undefined
  /\ \A q \in points : q.time_value # ValueOf(lastPoint).time_value

\* Time t is within a windowed gap of b: at or after its start, before its
\* end.
InWindowedGap(b, t) ==
  \E k \in GapIdxs(b) :
    /\ HasValue(GapOf(b, k).window)
    /\ Lower(GapOf(b, k).lifespan) <= t
    /\ t < Upper(GapOf(b, k).lifespan)

\* A section flushed at time t describes the times before t: it is within
\* a windowed gap of b if the gap starts before t and ends at t or later.
FlushInWindowedGap(b, t) ==
  \E k \in GapIdxs(b) :
    /\ HasValue(GapOf(b, k).window)
    /\ Lower(GapOf(b, k).lifespan) < t
    /\ t <= Upper(GapOf(b, k).lifespan)

\* The buffer is in actives during its windowed gaps and in the sections
\* flushed then.
StaysActiveInWindowedGap ==
  /\ TimeStepDone =>
       \A b \in BufferIdxs :
         InWindowedGap(b, ValueOf(lastPoint).time_value) => b \in actives
  /\ sections' # sections =>
       \A b \in BufferIdxs :
         FlushInWindowedGap(b, ValueOf(lastPoint').time_value) =>
           b \in sections'[Len(sections')]

\* C15: a windowed gap start or end changes neither actives, alive, the
\* overlaps, the number of partitions nor their buffer lists, and changes
\* the window and the span start of no other buffer; and a buffer is in
\* actives, and in every section flushed, for the duration of its windowed
\* gaps.
C15_WindowedGapFrame ==
  [][(WindowedGapStep => WindowedGapFrame) /\ StaysActiveInWindowedGap]_vars

\* Of two gaps of one buffer, one ends before or when the other starts.
GapsPairwiseDisjoint ==
  \A b \in BufferIdxs :
    \A j, k \in GapIdxs(b) :
      j # k => \/ Upper(GapOf(b, j).lifespan) <= Lower(GapOf(b, k).lifespan)
               \/ Upper(GapOf(b, k).lifespan) <= Lower(GapOf(b, j).lifespan)

\* C15 amended: the frame as above; and a buffer is in actives, and in every
\* section flushed, for the duration of its windowed gaps when the gaps of
\* each buffer are pairwise disjoint.
C15_WindowedGapFrameDisjoint ==
  [][/\ WindowedGapStep => WindowedGapFrame
     /\ GapsPairwiseDisjoint => StaysActiveInWindowedGap]_vars

\* A windowed gap of a buffer with two disjoint gaps has just ended while
\* another buffer was in actives, and sections were flushed.
C15_Witness ==
  /\ TimeStepDone
  /\ IsWindowedLeftGap(ValueOf(lastPoint))
  /\ GapsPairwiseDisjoint
  /\ Len(BufferAt(ValueOf(lastPoint).buffer_idx).gaps) = 2
  /\ ValueOf(lastPoint).buffer_idx \in actives
  /\ \E x \in actives : x # ValueOf(lastPoint).buffer_idx
  /\ Len(sections) >= 2

\* ------------------------------------------------------------------------
\* C16.  Active sets track real time.
\* ------------------------------------------------------------------------

\* Time t is within b's half-open lifespan.
LifespanContains(b, t) ==
  Lower(BufferAt(b).lifespan) <= t /\ t < Upper(BufferAt(b).lifespan)

\* Time t is within a window-less gap of b.
InEmptyGap(b, t) ==
  \E k \in GapIdxs(b) :
    /\ ~HasValue(GapOf(b, k).window)
    /\ Lower(GapOf(b, k).lifespan) <= t
    /\ t < Upper(GapOf(b, k).lifespan)

\* C16: when the gaps of each buffer are pairwise disjoint, then after all
\* events of a time value t are processed alive is the set of buffers whose
\* lifespan contains t, actives the set of those that are not within a
\* window-less gap at t, and actives is a subset of alive.
C16_ActiveSetsTrackTime ==
  (TimeStepDone /\ GapsPairwiseDisjoint) =>
    LET t == ValueOf(lastPoint).time_value IN
      /\ alive = {b \in BufferIdxs : LifespanContains(b, t)}
      /\ actives = {b \in BufferIdxs :
                      LifespanContains(b, t) /\ ~InEmptyGap(b, t)}
      /\ actives \subseteq alive

\* ------------------------------------------------------------------------
\* C17.  Sections and spans agree.
\* ------------------------------------------------------------------------

\* One of b's spans covers section index s.
SpanCovers(b, s) ==
  \E i \in 1..Len(section_spans[b]) :
    Lower(SpanRange(b, i)) <= s /\ s < Upper(SpanRange(b, i))

\* C17: in the final result, b is a member of section s exactly if one of
\* b's spans has lower <= s < upper.
C17_SectionsAndSpansAgree ==
  AllProcessed =>
    \A b \in BufferIdxs :
      \A s \in 0..(Len(sections) - 1) :
        b \in sections[s + 1] <=> SpanCovers(b, s)

\* ------------------------------------------------------------------------
\* C18.  No self-overlap.
\* ------------------------------------------------------------------------

\* C18: effective_size is never called for a buffer against itself, and no
\* buffer's overlap set has an entry that names the buffer itself.
C18_NoSelfOverlap ==
  \A b \in BufferIdxs :
    /\ <<b, b>> \notin returned
    /\ \A c \in Collaborators : EntriesFor(c, b, b) = {}

\* ------------------------------------------------------------------------
\* C19.  Clean end state.
\* ------------------------------------------------------------------------

\* C19: after the last event actives and alive are empty, no buffer has an
\* open span, every buffer has a span, and every partition has a section
\* range with lower < upper; and CalculateCuts reads no span of a buffer
\* that has none.
C19_CleanEndState ==
  /\ AllProcessed =>
       /\ actives = {}
       /\ alive = {}
       /\ \A b \in BufferIdxs : section_start[b] = -1
       /\ \A b \in BufferIdxs : section_spans[b] # << >>
       /\ \A i \in 1..Len(partitions) :
            Lower(SectionRangeOf(i)) < Upper(SectionRangeOf(i))
  /\ phase = "cuts" => ~undefined

\* ------------------------------------------------------------------------
\* C20.  Cut vector length without wrap-around.
\* ------------------------------------------------------------------------

\* max(0, sections.size() - 1)
ExpectedCutsLength == IF Len(sections) = 0 THEN 0 ELSE Len(sections) - 1

\* C20: for every sweep result, also that of a problem without buffers,
\* CalculateCuts returns a vector of max(0, sections.size() - 1) counters;
\* the length sections.size() - 1 never wraps around.
C20_CutsLength ==
  (phase = "cuts" /\ ~undefined) =>
    /\ ~cuts.thrown
    /\ Len(cuts.counts) = ExpectedCutsLength

====
